---- MODULE Spec2Model ----
(***************************************************************************)
(* Model of the tic-tac-toe App component (tic_tac_toe_frontend/src/App.js) *)
(* as a state machine: React state (squares, xIsNext, scores, theme), the  *)
(* useMemo cache of calculateWinner, the firstConclusionLogged ref and the *)
(* pending 200ms timeout of the score effect.  Every action is one event   *)
(* handler followed by the render it causes and the effects of that render.*)
(***************************************************************************)
EXTENDS Integers, Sequences, FiniteSets, TLC

\* ---------------------------------------------------------------- bounds
\* number of games (initial game + resets) a behaviour may start
MaxGames == 2

\* ------------------------------------------------------------- constants
Null == "null"
Cells == 0..8
Players == {"X", "O"}
CellValues == {Null, "X", "O"}
NoLine == <<>>

\* the `lines` table of calculateWinner, in source order
Lines ==
  << <<0, 1, 2>>, <<3, 4, 5>>, <<6, 7, 8>>,
     <<0, 3, 6>>, <<1, 4, 7>>, <<2, 5, 8>>,
     <<0, 4, 8>>, <<2, 4, 6>> >>

VARIABLES
  squares,                \* useState(Array(9).fill(null))
  xIsNext,                \* useState(true)
  scores,                 \* useLocalStorage("ttt-scores", {X:0,O:0,draws:0})
  theme,                  \* useLocalStorage("ttt-theme", "light")
  memo,                   \* useMemo(() => calculateWinner(squares), [squares])
  firstConclusionLogged,  \* useRef(false).current
  timer,                  \* TRUE while the effect's setTimeout is pending
  games,                  \* history: games started so far
  concluded,              \* history: games that reached Win or Draw
  ls,                     \* window.localStorage: key -> stored item
  lsFails,                \* TRUE while access to localStorage throws
  lastOp,                 \* history: kind of the last event handled
  script                  \* history: k when the events on the board of this
                          \* game were playMove(0), ..., playMove(k-1), in
                          \* that order; -1 otherwise

vars == <<squares, xIsNext, scores, theme, memo, firstConclusionLogged,
          timer, ls, lsFails, games, concluded, lastOp, script>>

\* ------------------------------------------------------- calculateWinner
\* mutant: the third cell of the line is not compared
LineMatches_twoCells(sq, l) ==
  /\ sq[l[1]] # Null
  /\ sq[l[1]] = sq[l[2]]

\* the test of the loop body: squares[a] && squares[a] === squares[b] && ...
LineMatches(sq, l) ==
  /\ sq[l[1]] # Null
  /\ sq[l[1]] = sq[l[2]]
  /\ sq[l[1]] = sq[l[3]]

RECURSIVE ScanLines(_, _)
ScanLines(sq, k) ==
  IF k > Len(Lines)
    THEN [winner |-> Null, line |-> NoLine]
    ELSE IF LineMatches(sq, Lines[k])
           THEN [winner |-> sq[Lines[k][1]], line |-> Lines[k]]
           ELSE ScanLines(sq, k + 1)

\* mutant: the loop does not return at the first match, the last match wins
RECURSIVE ScanLinesBack(_, _)
ScanLinesBack(sq, k) ==
  IF k < 1
    THEN [winner |-> Null, line |-> NoLine]
    ELSE IF LineMatches(sq, Lines[k])
           THEN [winner |-> sq[Lines[k][1]], line |-> Lines[k]]
           ELSE ScanLinesBack(sq, k - 1)

calculateWinner_lastMatch(sq) == ScanLinesBack(sq, Len(Lines))

calculateWinner(sq) == ScanLines(sq, 1)

\* ------------------------------------------------ derived values of App
\* mutant: isDraw does not look at the winner
isDrawOf_ignoresWinner(m, sq) == \A i \in Cells : sq[i] # Null

isDrawOf(m, sq) == m.winner = Null /\ \A i \in Cells : sq[i] # Null

gameOverOf(m, sq) == m.winner # Null \/ isDrawOf(m, sq)

currentPlayerOf(xn) == IF xn THEN "X" ELSE "O"

IsDraw == isDrawOf(memo, squares)
GameOver == gameOverOf(memo, squares)

\* GameResult of the specification, read from the rendered values
ResultOf(m, sq) ==
  IF m.winner # Null THEN "Win"
  ELSE IF isDrawOf(m, sq) THEN "Draw" ELSE "InProgress"

Result == ResultOf(memo, squares)

\* ------------------------------------------------------------ handlePlay
\* mutant: the guard forgets the occupied cell
playRejected_gameOverOnly(m, sq, i) == gameOverOf(m, sq)

\* mutant: the guard forgets the concluded game
playRejected_occupiedOnly(m, sq, i) == sq[i] # Null

\* the guard of handlePlay (and of Board.handleClick): gameOver || squares[i]
playRejected(m, sq, i) == gameOverOf(m, sq) \/ sq[i] # Null

\* mutant: the mover's symbol is not taken from the turn
playSquares_alwaysX(sq, xn, i) == [sq EXCEPT ![i] = "X"]

\* const next = squares.slice(); next[i] = currentPlayer;
playSquares(sq, xn, i) == [sq EXCEPT ![i] = currentPlayerOf(xn)]

\* mutant: handlePlay does not flip the turn
playXIsNext_kept(xn) == xn

\* setXIsNext((prev) => !prev)
playXIsNext(xn) == ~xn

\* ----------------------------------------------------------- handleReset
\* mutant: handleReset does not replace the board
resetSquares_kept == squares

\* setSquares(Array(9).fill(null))
resetSquares == [i \in Cells |-> Null]

\* mutant: handleReset does not set the turn
resetXIsNext_kept == xIsNext

\* setXIsNext(true)
resetXIsNext == TRUE

\* ----------------------------------------------------------- toggleTheme
\* mutant: the updater does not look at the current theme
toggled_alwaysDark(t) == "dark"

\* setTheme((t) => (t === "light" ? "dark" : "light"))
toggled(t) == IF t = "light" THEN "dark" ELSE "light"

\* ------------------------------------------------------- useLocalStorage
ScoresKey == "ttt-scores"
ThemeKey == "ttt-theme"
StorageKeys == {ScoresKey, ThemeKey}

\* the initialValue arguments of the two useLocalStorage calls
InitialScores == [X |-> 0, O |-> 0, draws |-> 0]
InitialTheme == "light"

\* A stored item is <<>> when the key is absent (getItem returns null),
\* <<"empty">> for the empty string, <<"text">> for a non-empty string that
\* is not JSON, and <<"json", v>> for the JSON text of the value v.
Absent == <<>>
EmptyString == <<"empty">>
NotJson == <<"text">>

\* JSON.stringify(value): the JSON text of value
JSONstringify(v) == <<"json", v>>

\* the state initializer: getItem, then ls ? JSON.parse(ls) : initialValue,
\* and initialValue when getItem or JSON.parse throws
readItem(store, fails, key, initialValue) ==
  IF fails THEN initialValue
  ELSE IF store[key] = Absent \/ store[key][1] = "empty" THEN initialValue
  ELSE IF store[key][1] = "text" THEN initialValue
  ELSE store[key][2]

\* the write effect on mount: setItem(key, JSON.stringify(value)) in a try
\* whose catch ignores the error
mountWrite(store, fails, key, value) ==
  IF fails THEN store ELSE [store EXCEPT ![key] = JSONstringify(value)]

\* mutant: the write effect runs on mount only (dependency list without value)
writeItem_mountOnly(store, fails, key, old, new) == store

\* the write effect after a render: it runs when value changed ([key, value])
writeItem(store, fails, key, old, new) ==
  IF old = new THEN store ELSE mountWrite(store, fails, key, new)

\* the write effects of both stores after a render
persist ==
  ls' = writeItem(writeItem(ls, lsFails, ScoresKey, scores, scores'),
                  lsFails, ThemeKey, theme, theme')

\* ---------------------------------------------------------- score effect
\* the dependency list [gameOver, winner, isDraw, setScores] of the effect
effectDeps(m, sq) == <<gameOverOf(m, sq), m.winner, isDrawOf(m, sq)>>

\* mutant: the effect has no dependency list and runs after every render
depsChanged_always(old, new) == TRUE

\* React re-runs the effect after a render only when a dependency changed
depsChanged(old, new) == old # new

\* mutant: the record is updated only when it can be stored
scoreUpdater_ifStored(prev, winner, draw) ==
  IF lsFails THEN prev
  ELSE IF winner = "X" THEN [prev EXCEPT !.X = prev.X + 1]
  ELSE IF winner = "O" THEN [prev EXCEPT !.O = prev.O + 1]
  ELSE IF draw THEN [prev EXCEPT !.draws = prev.draws + 1]
  ELSE prev

\* the updater handed to setScores
scoreUpdater(prev, winner, draw) ==
  IF winner = "X" THEN [prev EXCEPT !.X = prev.X + 1]
  ELSE IF winner = "O" THEN [prev EXCEPT !.O = prev.O + 1]
  ELSE IF draw THEN [prev EXCEPT !.draws = prev.draws + 1]
  ELSE prev

\* The effect after a render that shows (m, sq).  When a dependency changed,
\* the previous run's cleanup (clearTimeout) comes first, then the body:
\* early return if the game is not over or the ref is set; otherwise set
\* the ref, update the scores and start the 200ms timeout.
scoreEffect(m, sq) ==
  IF depsChanged(effectDeps(memo, squares), effectDeps(m, sq))
    THEN IF ~gameOverOf(m, sq) \/ firstConclusionLogged
           THEN /\ timer' = FALSE
                /\ UNCHANGED <<firstConclusionLogged, scores>>
           ELSE /\ firstConclusionLogged' = TRUE
                /\ scores' = scoreUpdater(scores, m.winner, isDrawOf(m, sq))
                /\ timer' = TRUE
    ELSE UNCHANGED <<firstConclusionLogged, scores, timer>>

\* A render after setSquares(sq): useMemo recomputes calculateWinner because
\* the array is a new one, then the effects of the render run.
renderSquares(sq) ==
  LET m == calculateWinner(sq) IN
    /\ squares' = sq
    /\ memo' = m
    /\ scoreEffect(m, sq)
    /\ UNCHANGED theme
    /\ persist

\* A render in which squares is the same array: the memo is kept.
renderSame ==
  /\ UNCHANGED <<squares, memo>>
  /\ scoreEffect(memo, squares)
  /\ persist

\* ------------------------------------------------------------------ Init
Init ==
  /\ squares = [i \in Cells |-> Null]
  /\ xIsNext = TRUE
  /\ scores = InitialScores
  /\ theme = InitialTheme
  /\ memo = calculateWinner([i \in Cells |-> Null])
  /\ firstConclusionLogged = FALSE
  /\ timer = FALSE
  /\ lsFails = FALSE
  /\ ls = [k \in StorageKeys |->
            JSONstringify(IF k = ScoresKey THEN InitialScores ELSE InitialTheme)]
  /\ games = 1
  /\ concluded = 0
  /\ lastOp = "init"
  /\ script = 0

\* --------------------------------------------------------------- actions
\* a click or Enter/Space on cell i: Board.handleClick, then handlePlay
PlayMove(i) ==
  /\ script' = (IF script = i THEN i + 1 ELSE -1)
  /\ IF playRejected(memo, squares, i)
       THEN /\ lastOp' = "reject"
            /\ UNCHANGED <<squares, xIsNext, scores, theme, memo,
                           firstConclusionLogged, timer, ls, lsFails,
                           games, concluded>>
       ELSE /\ renderSquares(playSquares(squares, xIsNext, i))
            /\ xIsNext' = playXIsNext(xIsNext)
            /\ concluded' = IF gameOverOf(memo', squares')
                              THEN concluded + 1 ELSE concluded
            /\ lastOp' = "play"
            /\ UNCHANGED <<lsFails, games>>

\* mutant: handleReset also clears the score record
Reset_clearsScores ==
  /\ games < MaxGames
  /\ squares' = resetSquares
  /\ memo' = calculateWinner(resetSquares)
  /\ xIsNext' = resetXIsNext
  /\ scores' = InitialScores
  /\ timer' = FALSE
  /\ UNCHANGED <<theme, concluded, firstConclusionLogged, lsFails>>
  /\ persist
  /\ games' = games + 1
  /\ lastOp' = "reset"
  /\ script' = 0

\* the New Game button
Reset ==
  /\ games < MaxGames
  /\ renderSquares(resetSquares)
  /\ xIsNext' = resetXIsNext
  /\ games' = games + 1
  /\ lastOp' = "reset"
  /\ script' = 0
  /\ UNCHANGED <<lsFails, concluded>>

\* the theme button
ToggleTheme ==
  /\ theme' = toggled(theme)
  /\ renderSame
  /\ lastOp' = "toggle"
  /\ UNCHANGED <<xIsNext, lsFails, games, concluded, script>>

\* the 200ms timeout of the score effect expires
TimerFire ==
  /\ timer
  /\ timer' = FALSE
  /\ firstConclusionLogged' = FALSE
  /\ lastOp' = "timer"
  /\ UNCHANGED <<squares, xIsNext, scores, theme, memo, ls, lsFails, games,
                 concluded, script>>

Next ==
  \/ \E i \in Cells : PlayMove(i)
  \/ Reset
  \/ ToggleTheme
  \/ TimerFire

Spec == Init /\ [][Next]_vars

\* ------------------------------------------- calculateWinner on any board
\* calculateWinner is exported: every 9-cell board over {null, X, O} is an
\* input.  InitEval draws the board, Evaluate applies the function.
InitEval ==
  /\ squares \in [Cells -> CellValues]
  /\ xIsNext = TRUE
  /\ scores = [X |-> 0, O |-> 0, draws |-> 0]
  /\ theme = "light"
  /\ memo = [winner |-> Null, line |-> NoLine]
  /\ firstConclusionLogged = FALSE
  /\ timer = FALSE
  /\ lsFails = FALSE
  /\ ls = [k \in StorageKeys |-> Absent]
  /\ games = 1
  /\ concluded = 0
  /\ lastOp = "input"
  /\ script = 0

Evaluate ==
  /\ lastOp = "input"
  /\ memo' = calculateWinner(squares)
  /\ lastOp' = "evaluate"
  /\ UNCHANGED <<squares, xIsNext, scores, theme, firstConclusionLogged,
                 timer, ls, lsFails, games, concluded, script>>

NextEval == Evaluate

SpecEval == InitEval /\ [][NextEval]_vars

\* ------------------------------------------- sessions over localStorage
\* cells the player clicks in the storage specification: 0..MaxStoreCell
MaxStoreCell == 4
StoreCells == 0..MaxStoreCell

\* App mounts: both useLocalStorage initializers read the store, the other
\* state takes its initial value, then the write effects of the first
\* render run.
mount ==
  LET sc == readItem(ls, lsFails, ScoresKey, InitialScores)
      th == readItem(ls, lsFails, ThemeKey, InitialTheme)
  IN /\ squares' = [i \in Cells |-> Null]
     /\ xIsNext' = TRUE
     /\ scores' = sc
     /\ theme' = th
     /\ memo' = calculateWinner([i \in Cells |-> Null])
     /\ firstConclusionLogged' = FALSE
     /\ timer' = FALSE
     /\ ls' = mountWrite(mountWrite(ls, lsFails, ScoresKey, sc),
                         lsFails, ThemeKey, th)
     /\ script' = 0

\* the page is loaded again: the old component is gone, App mounts anew
Restart ==
  /\ games < MaxGames
  /\ mount
  /\ games' = games + 1
  /\ lastOp' = "restart"
  /\ UNCHANGED <<lsFails, concluded>>

\* environment: localStorage becomes unavailable (quota, permissions) or
\* available again
StorageFlip ==
  /\ lsFails' = ~lsFails
  /\ lastOp' = "storage"
  /\ UNCHANGED <<squares, xIsNext, scores, theme, memo, firstConclusionLogged,
                 timer, ls, games, concluded, script>>

\* the state after the first mount over an empty store, storage working or not
InitStore ==
  /\ squares = [i \in Cells |-> Null]
  /\ xIsNext = TRUE
  /\ scores = InitialScores
  /\ theme = InitialTheme
  /\ memo = calculateWinner([i \in Cells |-> Null])
  /\ firstConclusionLogged = FALSE
  /\ timer = FALSE
  /\ lsFails \in BOOLEAN
  /\ ls = mountWrite(mountWrite([k \in StorageKeys |-> Absent],
                                lsFails, ScoresKey, InitialScores),
                     lsFails, ThemeKey, InitialTheme)
  /\ games = 1
  /\ concluded = 0
  /\ lastOp = "init"
  /\ script = 0

NextStore ==
  \/ \E i \in StoreCells : PlayMove(i)
  \/ Reset
  \/ ToggleTheme
  \/ TimerFire
  \/ StorageFlip
  \/ Restart

SpecStore == InitStore /\ [][NextStore]_vars

\* ------------------------------------------------- startup over any store
\* items another session, another program or the user may have left under
\* the two keys
StoredScores ==
  {Absent, EmptyString, NotJson}
    \cup {JSONstringify([X |-> x, O |-> o, draws |-> d]) :
            x \in {-1, 0, 2}, o \in {0, 1}, d \in {0, 3}}

StoredThemes ==
  {Absent, EmptyString, NotJson}
    \cup {JSONstringify(t) : t \in {"light", "dark", "blue"}}

\* before App mounts: nothing but the store exists
InitStartup ==
  /\ squares = [i \in Cells |-> Null]
  /\ xIsNext = TRUE
  /\ scores = InitialScores
  /\ theme = InitialTheme
  /\ memo = [winner |-> Null, line |-> NoLine]
  /\ firstConclusionLogged = FALSE
  /\ timer = FALSE
  /\ lsFails \in BOOLEAN
  /\ ls \in {[k \in StorageKeys |-> IF k = ScoresKey THEN a ELSE b] :
               a \in StoredScores, b \in StoredThemes}
  /\ games = 1
  /\ concluded = 0
  /\ lastOp = "boot"
  /\ script = 0

Startup ==
  /\ lastOp = "boot"
  /\ mount
  /\ lastOp' = "mount"
  /\ UNCHANGED <<lsFails, games, concluded>>

NextStartup == Startup

SpecStartup == InitStartup /\ [][NextStartup]_vars

\* ------------------------------------------------ vocabulary of the claims
Count(sq, v) == Cardinality({i \in Cells : sq[i] = v})

Total(rec) == rec.X + rec.O + rec.draws

\* line number k (1..8, scan order) is uniform and non-Empty on board sq
Completed(sq, k) ==
  \E s \in Players : \A n \in 1..3 : sq[Lines[k][n]] = s

\* the symbol on line k
SymbolOn(sq, k) == sq[Lines[k][1]]

EmptyBoard == [i \in Cells |-> Null]

\* the score record a conclusion with result (winner w / draw) must give
Counted(rec, w) ==
  IF w = "X" THEN [X |-> rec.X + 1, O |-> rec.O, draws |-> rec.draws]
  ELSE IF w = "O" THEN [X |-> rec.X, O |-> rec.O + 1, draws |-> rec.draws]
  ELSE [X |-> rec.X, O |-> rec.O, draws |-> rec.draws + 1]

\* ------------------------------------------------------------------ C1
\* C1: the counters gained since startup add up to the number of games that
\* reached a concluded state, whatever the timing of the resets.
C1_TotalIsConcludedGames == Total(scores) = concluded

\* ------------------------------------------------------------------ C2
\* C2: once a game is concluded, no step changes a score counter until the
\* next reset (re-renders, theme toggles, rejected moves, timer expiry).
C2_CountedAtMostOnce == [][GameOver => scores' = scores]_vars

\* a concluded, counted game is rendered again after the timer has expired
C2_Witness ==
  /\ GameOver
  /\ ~firstConclusionLogged
  /\ lastOp = "toggle"
  /\ Total(scores) = 1

\* ------------------------------------------------------------------ C3
\* C3: the step that concludes a game raises exactly the counter matching
\* the result by exactly 1 and leaves the other two unchanged.
C3_MatchingCounterPlusOne ==
  [][(~GameOver /\ GameOver') => scores' = Counted(scores, memo'.winner)]_vars

\* ------------------------------------------------------------------ C4
\* C4: playMove(i) on a concluded game or on a non-Empty cell changes
\* neither the board, nor the turn, nor the score record.
C4_IllegalMoveIsNoOp ==
  [][\A i \in Cells :
       ((Result # "InProgress" \/ squares[i] # Null) /\ PlayMove(i))
         => UNCHANGED <<squares, xIsNext, scores>>]_vars

\* a move was rejected on a won board
C4_Witness == lastOp = "reject" /\ Result = "Win"

\* ------------------------------------------------------------------ C5
\* C5: a legal playMove(i) writes the mover's symbol to cell i, keeps the
\* other eight cells and flips the turn.
C5_LegalMoveEffect ==
  [][\A i \in Cells :
       (Result = "InProgress" /\ squares[i] = Null /\ PlayMove(i))
         => /\ squares'[i] = (IF xIsNext THEN "X" ELSE "O")
            /\ \A j \in Cells \ {i} : squares'[j] = squares[j]
            /\ xIsNext' = ~xIsNext]_vars

\* O has just played the centre
C5_Witness ==
  /\ lastOp = "play"
  /\ squares[4] = "O"
  /\ Count(squares, "O") = 1
  /\ xIsNext

\* ------------------------------------------------------------------ C6
\* C6: the turn is a function of the cell counts: O-to-move exactly when
\* count(X) > count(O), and X-to-move iff the number of moves is even.
C6_TurnFromCounts ==
  /\ xIsNext <=> ~(Count(squares, "X") > Count(squares, "O"))
  /\ xIsNext <=> ((Count(squares, "X") + Count(squares, "O")) % 2 = 0)

\* O to move in a game started by a reset
C6_Witness ==
  /\ games = 2
  /\ ~xIsNext
  /\ Count(squares, "X") = 2
  /\ Count(squares, "O") = 1

\* ------------------------------------------------------------------ C7
\* C7: the state right after reset() has 9 Empty cells, X-to-move and
\* result InProgress, whatever the state before.
C7_ResetYieldsFreshGame ==
  lastOp = "reset" => (squares = EmptyBoard /\ xIsNext /\ Result = "InProgress")

\* reset of a concluded game whose recorded-flag is still set
C7_Witness == lastOp = "reset" /\ concluded = 1 /\ firstConclusionLogged

\* ------------------------------------------------------------------ C8
\* C8: reset() keeps the score record and the theme; counters change only
\* on the step that concludes a game, the theme only on toggleTheme.
C8_ResetKeepsScoresAndTheme ==
  [][/\ Reset => UNCHANGED <<scores, theme>>
     /\ scores' # scores => (~GameOver /\ GameOver')
     /\ theme' # theme => ToggleTheme]_vars

\* a reset with a non-zero record and the non-default theme
C8_Witness == lastOp = "reset" /\ scores.X = 1 /\ theme = "dark"

\* ------------------------------------------------------------------ C9
\* C9: evaluate returns Win(player, line) for the first line, in the fixed
\* scan order, that is uniform and non-Empty, player being its symbol.
C9_FirstCompletedLineWins ==
  lastOp = "evaluate" =>
    \A k \in 1..8 :
      (Completed(squares, k) /\ \A j \in 1..(k - 1) : ~Completed(squares, j))
        => memo = [winner |-> SymbolOn(squares, k), line |-> Lines[k]]

\* two completed lines of different symbols: the earlier one is reported
C9_Witness ==
  /\ lastOp = "evaluate"
  /\ Completed(squares, 2) /\ SymbolOn(squares, 2) = "O"
  /\ Completed(squares, 3) /\ SymbolOn(squares, 3) = "X"
  /\ memo = [winner |-> "O", line |-> <<3, 4, 5>>]

\* ------------------------------------------------------------------ C10
\* C10 as stated: a completed line L of symbol S with no earlier completed
\* line of a different symbol makes evaluate return Win(S, L), L that line.
C10_Original ==
  lastOp = "evaluate" =>
    \A k \in 1..8 :
      (Completed(squares, k)
         /\ \A j \in 1..(k - 1) :
              Completed(squares, j) => SymbolOn(squares, j) = SymbolOn(squares, k))
        => memo = [winner |-> SymbolOn(squares, k), line |-> Lines[k]]

\* C10 amended: under the same condition evaluate returns Win(S, L') where
\* L' is a completed line of S not later than L in scan order, and L' = L
\* when no completed line precedes L.
C10_WinnerOfCompletedLine ==
  lastOp = "evaluate" =>
    \A k \in 1..8 :
      (Completed(squares, k)
         /\ \A j \in 1..(k - 1) :
              Completed(squares, j) => SymbolOn(squares, j) = SymbolOn(squares, k))
        => /\ memo.winner = SymbolOn(squares, k)
           /\ \E j \in 1..k :
                /\ memo.line = Lines[j]
                /\ Completed(squares, j)
                /\ \A n \in 1..(j - 1) : ~Completed(squares, n)

\* X holds row [0,1,2] and column [0,3,6]: the row is reported
C10_Witness ==
  /\ lastOp = "evaluate"
  /\ \A i \in {0, 1, 2, 3, 6} : squares[i] = "X"
  /\ \A i \in {4, 5, 7, 8} : squares[i] = "O"
  /\ memo = [winner |-> "X", line |-> <<0, 1, 2>>]

\* ------------------------------------------------------------------ C11
\* C11: with no winning line the result is Draw exactly when the board is
\* full and InProgress exactly when a cell is Empty; a board with a winning
\* line is never a Draw, full or not.
C11_DrawIffFullWithoutLine ==
  lastOp = "evaluate" =>
    IF \E k \in 1..8 : Completed(squares, k)
      THEN ~isDrawOf(memo, squares) /\ ResultOf(memo, squares) = "Win"
      ELSE /\ isDrawOf(memo, squares) <=> (Count(squares, Null) = 0)
           /\ ResultOf(memo, squares) = "Draw" <=> (Count(squares, Null) = 0)
           /\ ResultOf(memo, squares) = "InProgress" <=> (Count(squares, Null) > 0)

\* a full board with a winning line, evaluated: Win, not Draw
C11_Witness ==
  /\ lastOp = "evaluate"
  /\ Count(squares, Null) = 0
  /\ Completed(squares, 8)
  /\ ResultOf(memo, squares) = "Win"

\* ------------------------------------------------------------------ C12
\* C12: the board always has exactly 9 cells, each Empty, X or O, and
\* count(X) - count(O) is 0 or 1.
C12_BoardShape ==
  /\ DOMAIN squares = Cells
  /\ Cardinality(DOMAIN squares) = 9
  /\ \A i \in Cells : squares[i] \in CellValues
  /\ Count(squares, "X") - Count(squares, "O") \in {0, 1}

\* a full board: five X, four O
C12_Witness == Count(squares, "X") = 5 /\ Count(squares, "O") = 4

\* ------------------------------------------------------------------ C13
\* C13: when the result is Win(P, line), P made the most recent move (the
\* turn flag shows the other player) and the three cells of line hold P.
C13_WinnerJustMoved ==
  memo.winner # Null =>
    /\ memo.winner = (IF xIsNext THEN "O" ELSE "X")
    /\ Len(memo.line) = 3
    /\ \A n \in 1..3 : squares[memo.line[n]] = memo.winner

\* O has won on a column
C13_Witness == memo = [winner |-> "O", line |-> <<1, 4, 7>>] /\ xIsNext

\* ------------------------------------------------------------------ C14
\* the store holds the JSON text of the in-memory record and theme
InSync ==
  /\ ls[ScoresKey] = <<"json", scores>>
  /\ ls[ThemeKey] = <<"json", theme>>

\* C14: while writes succeed, every change of the score record or of the
\* theme is written under its key, the store stays equal to the in-memory
\* values, and a restart that reads such a store starts with exactly them.
C14_ChangesAreWritten ==
  [][/\ (~lsFails /\ scores' # scores) => ls'[ScoresKey] = <<"json", scores'>>
     /\ (~lsFails /\ theme' # theme) => ls'[ThemeKey] = <<"json", theme'>>
     /\ (~lsFails /\ InSync) => InSync'
     /\ (Restart /\ ~lsFails /\ InSync)
          => (scores' = scores /\ theme' = theme)]_vars

\* a restart has read back a won game and the dark theme
C14_Witness ==
  /\ lastOp = "restart"
  /\ ~lsFails
  /\ scores = [X |-> 1, O |-> 0, draws |-> 0]
  /\ theme = "dark"
  /\ InSync

\* ------------------------------------------------------------------ C15
\* C15: a step taken while writes fail stores nothing, and still gives the
\* in-memory state its new value: the theme is toggled, a first conclusion
\* is counted, a legal move is placed and flips the turn, a reset clears
\* the board.
C15_WriteFailureIsSwallowed ==
  [][lsFails =>
       /\ ls' = ls
       /\ ToggleTheme => theme' = (IF theme = "light" THEN "dark" ELSE "light")
       /\ (~GameOver /\ GameOver' /\ ~firstConclusionLogged)
            => scores' = Counted(scores, memo'.winner)
       /\ \A i \in Cells :
            (Result = "InProgress" /\ squares[i] = Null /\ PlayMove(i))
              => (squares'[i] = (IF xIsNext THEN "X" ELSE "O")
                    /\ xIsNext' = ~xIsNext)
       /\ Reset => (squares' = EmptyBoard /\ xIsNext')]_vars

\* a win was counted in memory while the store kept the old record
C15_Witness ==
  /\ lsFails
  /\ lastOp = "play"
  /\ scores = [X |-> 1, O |-> 0, draws |-> 0]
  /\ ls[ScoresKey] = <<"json", [X |-> 0, O |-> 0, draws |-> 0]>>

\* ------------------------------------------------------------------ C16
\* a stored item that is the JSON text of three non-negative counters
WellFormedScores(item) ==
  /\ Len(item) = 2
  /\ item[1] = "json"
  /\ \A f \in {"X", "O", "draws"} : item[2][f] \in Nat

\* a stored item that is the JSON text of "light" or "dark"
WellFormedTheme(item) ==
  /\ Len(item) = 2
  /\ item[1] = "json"
  /\ item[2] \in {"light", "dark"}

\* C16: at startup an absent, unreadable or malformed stored value gives
\* the all-zero record / the light theme, so the theme is light or dark and
\* the counters are non-negative integers.
C16_MalformedFallsBackToDefaults ==
  [][Startup =>
       /\ (lsFails \/ ~WellFormedScores(ls[ScoresKey]))
            => scores' = [X |-> 0, O |-> 0, draws |-> 0]
       /\ (lsFails \/ ~WellFormedTheme(ls[ThemeKey])) => theme' = "light"
       /\ theme' \in {"light", "dark"}
       /\ \A f \in {"X", "O", "draws"} : scores'[f] \in Nat]_vars

\* ------------------------------------------------------------------ C17
\* C17: toggleTheme swaps light and dark (so two toggles restore the
\* theme) and changes neither the board, nor the turn, nor the scores.
C17_ToggleSwapsTheme ==
  [][ToggleTheme =>
       /\ theme = "light" => theme' = "dark"
       /\ theme = "dark" => theme' = "light"
       /\ UNCHANGED <<squares, xIsNext, scores>>]_vars

\* the theme is back to light after toggles, on a concluded recorded game
C17_Witness ==
  /\ lastOp = "toggle"
  /\ theme = "light"
  /\ GameOver
  /\ Total(scores) = 1

\* ------------------------------------------------------------------ C18
\* the board after playMove(0), ..., playMove(k-1) when every move is accepted
\* up to the seventh: X on the even cells, O on the odd cells below k
ScriptBoard(k) ==
  [i \in Cells |-> IF i >= k THEN Null ELSE IF i % 2 = 0 THEN "X" ELSE "O"]

\* the board the scenario of the specification names: X,O,X,O,X,O,O,X,O
ClaimedDrawBoard ==
  [i \in Cells |-> IF i \in {0, 2, 4, 7} THEN "X" ELSE "O"]

\* C18 as stated: playing 0..8 in order from a fresh game fills the board
\* as X,O,X,O,X,O,O,X,O, the result is Draw and draws goes up by 1.
C18_Original ==
  script = 9 =>
    /\ squares = ClaimedDrawBoard
    /\ Result = "Draw"
    /\ games = 1 => scores.draws = 1

\* C18 amended: playing 0..8 in order from a fresh game is in progress up to
\* the sixth move, the seventh move (X on 6) completes [2,4,6], the result
\* is Win(X,[2,4,6]), the moves on 7 and 8 are rejected and the board stays
\* X,O,X,O,X,O,X,_,_; in the first game after startup xWins goes from 0 to 1
\* and draws stays 0.
C18_InOrderPlayIsXWin ==
  /\ script \in 0..6 => (squares = ScriptBoard(script) /\ Result = "InProgress")
  /\ script \in 7..9 =>
       /\ squares = ScriptBoard(7)
       /\ memo = [winner |-> "X", line |-> <<2, 4, 6>>]
       /\ games = 1 => scores = [X |-> 1, O |-> 0, draws |-> 0]

\* all nine moves were made in order; the last one was rejected
C18_Witness ==
  /\ script = 9
  /\ lastOp = "reject"
  /\ games = 1
  /\ scores.X = 1

\* ------------------------------------------------------------------ C19
\* C19: the recorded-flag is clear right after every reset, and no step
\* other than a reset changes it from set to clear.
C19_FlagClearedExactlyOnReset ==
  [][/\ Reset => ~firstConclusionLogged'
     /\ (firstConclusionLogged /\ ~firstConclusionLogged') => Reset]_vars

\* ------------------------------------------------------------------ C20
\* the completed lines of a board
CompletedLines(sq) == {k \in 1..8 : Completed(sq, k)}

\* C20 as stated: no reachable board has two or more completed lines.
C20_Original == Cardinality(CompletedLines(squares)) <= 1

\* C20 amended: no reachable board has completed lines of both symbols or
\* more than two completed lines; two lines are completed together only by
\* the one last move, on the cell they share, and hold that mover's symbol.
C20_AtMostTwoLinesOneSymbol ==
  /\ Cardinality(CompletedLines(squares)) <= 2
  /\ \A j, k \in CompletedLines(squares) :
       /\ SymbolOn(squares, j) = SymbolOn(squares, k)
       /\ SymbolOn(squares, j) = (IF xIsNext THEN "O" ELSE "X")
       /\ j # k => \E c \in Cells :
                     /\ \E n \in 1..3 : Lines[j][n] = c
                     /\ \E n \in 1..3 : Lines[k][n] = c

\* X's fifth move on cell 0 completed row [0,1,2] and column [0,3,6]
C20_Witness ==
  /\ lastOp = "play"
  /\ CompletedLines(squares) = {1, 4}
  /\ SymbolOn(squares, 1) = "X"
  /\ ~xIsNext

====
